---- MODULE Spec2Model ----
(***************************************************************************)
(* A model of the RAG system of rag_system.py, llm_client.py and app.py:   *)
(* the source directory and its content fingerprint, the persisted cache   *)
(* record, the per-instance in-memory index, activation / build / save /   *)
(* clear, retrieval, prompt assembly and the chat loop.                    *)
(*                                                                         *)
(* Idealisations: MD5 is injective on the byte strings of the model (a     *)
(* digest is represented by the message it digests); a file's content is a *)
(* short sequence of abstract bytes; a text is a sequence of pieces.       *)
(***************************************************************************)
EXTENDS Integers, Sequences, FiniteSets, TLC

VARIABLES
    \* ---- fingerprint study (_get_data_hash alone) ----
    hdir,          \* a source directory tree
    snapA,         \* first observation <tree, fingerprint> or NoSnap
    snapB,         \* latest observation <tree, fingerprint> or NoSnap
    hedits,        \* number of changes made to hdir
    \* ---- file system and RAGSystem instances ----
    dirs,          \* data path of each namespace -> directory tree
    fs_cache,      \* cache key -> the three cache files
    alive,         \* namespace -> an instance has been constructed
    vectorstores,  \* namespace -> self._vectorstores.get(key) of its instance
    retrievers,    \* namespace -> self._retrievers.get(key) of its instance
    nbuilds,       \* number of indexes built so far (identity of an index)
    fsops,         \* number of changes the environment made to the disk
    last,          \* what the last operation did (observation)
    added,         \* namespace -> new file added since the last rebuild
    nodocs,        \* namespace -> last activation/rebuild found nothing to index
    \* ---- the chat loop of app.py and RAGSystem.ask ----
    chat_history,  \* st.session_state.chat_history
    asked,         \* what the last call of ask was given and produced
    \* ---- threads sharing the cached instance of app.py ----
    rb,            \* the session that pressed the rebuild button
    rd,            \* a session inside retrieve_documents
    \* ---- builds that save the cache record of one namespace side by side ----
    sv,            \* saver -> where its build and save stand
    wrote          \* which save wrote each cache file, and on which tree it hashed

hashVars == <<hdir, snapA, snapB, hedits>>
ragVars == <<dirs, fs_cache, alive, vectorstores, retrievers, nbuilds, fsops,
             last, added, nodocs>>
chatVars == <<chat_history, asked>>
concVars == <<rb, rd>>
saveVars == <<sv, wrote>>
vars == <<hashVars, ragVars, chatVars, concVars, saveVars>>
notHash == <<ragVars, chatVars, concVars, saveVars>>
notRag == <<hashVars, chatVars, concVars, saveVars>>
notChat == <<hashVars, ragVars, concVars, saveVars>>

----------------------------------------------------------------------------
(* Bounds *)
MaxByte == 2       \* abstract bytes are 1..MaxByte
MaxLen == 2        \* longest file content
MaxEdits == 2      \* changes to the directory in the fingerprint study
MaxBuilds == 2     \* indexes built in one run
MaxFsOps == 2      \* disk changes by the environment in one run
MaxMsgs == 6       \* messages of one chat session

----------------------------------------------------------------------------
(* Directories *)
Absent == <<0>>                    \* no such file (0 is not a byte)
Bytes == 1..MaxByte
Contents == UNION {[1..n -> Bytes] : n \in 0..MaxLen}

RootDir == "."
SubDirs == {"s1", "s2"}
DirNames == {RootDir} \cup SubDirs
\* file names, listed in lexicographic order
SortedNames == <<"a.md", "b.txt">>
FileNames == {SortedNames[i] : i \in 1..Len(SortedNames)}
Paths == DirNames \X FileNames
EmptyTree == [p \in Paths |-> Absent]

NameRank(n) == CHOOSE i \in 1..Len(SortedNames) : SortedNames[i] = n

\* sorted(files): the names present in directory d, in lexicographic order
RECURSIVE SortedFrom(_, _, _)
SortedFrom(tree, d, i) ==
    IF i > Len(SortedNames) THEN <<>>
    ELSE (IF tree[<<d, SortedNames[i]>>] # Absent
          THEN <<SortedNames[i]>> ELSE <<>>) \o SortedFrom(tree, d, i + 1)
SortedFiles(tree, d) == SortedFrom(tree, d, 1)

\* the orders in which os.walk may enumerate the sub-directories
WalkOrders == {<<"s1", "s2">>, <<"s2", "s1">>}
CanonicalOrder == <<"s1", "s2">>

\* hash_md5.update(f.read()) for the sorted files of one directory
RECURSIVE UpdateFiles(_, _, _, _)
UpdateFiles(msg, tree, d, names) ==
    IF names = <<>> THEN msg
    ELSE UpdateFiles(msg \o tree[<<d, Head(names)>>], tree, d, Tail(names))

RECURSIVE UpdateDirs(_, _, _)
UpdateDirs(msg, tree, ds) ==
    IF ds = <<>> THEN msg
    ELSE UpdateDirs(UpdateFiles(msg, tree, Head(ds), SortedFiles(tree, Head(ds))),
                    tree, Tail(ds))

\* _get_data_hash with os.walk visiting the root, then the sub-directories
\* in the order `order`; the digest is represented by the digested message
DataHash(tree, order) == [md5 |-> UpdateDirs(<<>>, tree, <<RootDir>> \o order)]

----------------------------------------------------------------------------
(* Fingerprint study: the directory changes, the fingerprint is taken *)
NoSnap == [tag |-> "nosnap"]
Snap(tree, order) == [tree |-> tree, order |-> order, fp |-> DataHash(tree, order)]

\* the directories the study starts from: at most two one-byte documents
InitTrees ==
    {EmptyTree} \cup
    {[[EmptyTree EXCEPT ![p] = <<b>>] EXCEPT ![q] = <<c>>] :
        p \in Paths, q \in Paths, b \in Bytes, c \in Bytes}

HashInit ==
    /\ hdir \in InitTrees
    /\ snapA = NoSnap
    /\ snapB = NoSnap
    /\ hedits = 0

\* the first fingerprint of the directory
HashFirst ==
    /\ snapA = NoSnap
    /\ \E o \in WalkOrders : snapA' = Snap(hdir, o)
    /\ UNCHANGED <<hdir, snapB, hedits>>
    /\ UNCHANGED notHash

\* a later fingerprint of the directory
HashAgain ==
    /\ snapA # NoSnap
    /\ \E o \in WalkOrders : snapB' = Snap(hdir, o)
    /\ UNCHANGED <<hdir, snapA, hedits>>
    /\ UNCHANGED notHash

\* one byte of one file is changed
ChangeByte ==
    /\ hedits < MaxEdits
    /\ \E p \in Paths : \E i \in 1..MaxLen : \E b \in Bytes :
          /\ hdir[p] # Absent
          /\ i <= Len(hdir[p])
          /\ hdir[p][i] # b
          /\ hdir' = [hdir EXCEPT ![p] = [hdir[p] EXCEPT ![i] = b]]
    /\ hedits' = hedits + 1
    /\ UNCHANGED <<snapA, snapB>>
    /\ UNCHANGED notHash

\* a file is renamed (or moved to another directory)
RenameFile ==
    /\ hedits < MaxEdits
    /\ \E p, q \in Paths :
          /\ hdir[p] # Absent
          /\ hdir[q] = Absent
          /\ hdir' = [hdir EXCEPT ![p] = Absent, ![q] = hdir[p]]
    /\ hedits' = hedits + 1
    /\ UNCHANGED <<snapA, snapB>>
    /\ UNCHANGED notHash

\* the last byte of one file becomes the first byte of another
MoveByte ==
    /\ hedits < MaxEdits
    /\ \E p, q \in Paths :
          /\ p # q
          /\ hdir[p] # Absent /\ hdir[q] # Absent
          /\ Len(hdir[p]) > 0 /\ Len(hdir[q]) < MaxLen
          /\ hdir' = [hdir EXCEPT
                        ![p] = SubSeq(hdir[p], 1, Len(hdir[p]) - 1),
                        ![q] = <<hdir[p][Len(hdir[p])]>> \o hdir[q]]
    /\ hedits' = hedits + 1
    /\ UNCHANGED <<snapA, snapB>>
    /\ UNCHANGED notHash


----------------------------------------------------------------------------
(* Namespaces and their paths *)
NoUser == "None"                       \* user_id is None: the global knowledge base
UserIds == {"global"}                  \* user identifiers
Namespaces == {NoUser} \cup UserIds

\* key = self.user_id or "global"
Key(ns) == IF ns = NoUser THEN "global" ELSE ns
CacheKeys == {Key(ns) : ns \in Namespaces}

\* _init_paths: the source directory of a namespace
DataPath(ns) == IF ns = NoUser THEN <<"knowledge_base">> ELSE <<"user_data", ns>>

\* _get_cache_path: the cache directory of a namespace
CachePath(ns) == <<"vector_cache", Key(ns)>>

----------------------------------------------------------------------------
(* Documents, chunks and indexes *)
None == [tag |-> "none"]
Corrupt == [tag |-> "corrupt"]
Unreadable == [tag |-> "unreadable"]
Missing == [tag |-> "missing"]      \* no such cache file

ChunkSize == 2000
RetrieveK == 6

Ext(name) == CASE name = "a.md" -> "md"
               [] name = "b.txt" -> "txt"

\* the DirectoryLoaders of _load_documents, in their order
LoaderExts == <<"pdf", "docx", "txt", "csv", "html", "mhtml", "md">>

RECURSIVE DocsOfFiles(_, _, _, _, _)
DocsOfFiles(tree, dp, d, names, ext) ==
    IF names = <<>> THEN <<>>
    ELSE (IF Ext(Head(names)) = ext
          THEN <<[source |-> dp \o <<d, Head(names)>>,
                  page_content |-> tree[<<d, Head(names)>>]]>>
          ELSE <<>>) \o DocsOfFiles(tree, dp, d, Tail(names), ext)

RECURSIVE DocsOfDirs(_, _, _, _)
DocsOfDirs(tree, dp, ds, ext) ==
    IF ds = <<>> THEN <<>>
    ELSE DocsOfFiles(tree, dp, Head(ds), SortedFiles(tree, Head(ds)), ext)
            \o DocsOfDirs(tree, dp, Tail(ds), ext)

RECURSIVE DocsOfLoaders(_, _, _)
DocsOfLoaders(tree, dp, exts) ==
    IF exts = <<>> THEN <<>>
    ELSE DocsOfDirs(tree, dp, <<RootDir>> \o CanonicalOrder, Head(exts))
            \o DocsOfLoaders(tree, dp, Tail(exts))

\* _load_documents: one document per file of a supported extension
LoadDocuments(tree, dp) == DocsOfLoaders(tree, dp, LoaderExts)

\* text_splitter.split_documents: a text of at most ChunkSize characters is one
\* chunk, an empty text gives no chunk (MaxLen < ChunkSize in this model)
RECURSIVE SplitDocuments(_)
SplitDocuments(docs) ==
    IF docs = <<>> THEN <<>>
    ELSE (IF Len(Head(docs).page_content) = 0 THEN <<>>
          ELSE IF Len(Head(docs).page_content) <= ChunkSize THEN <<Head(docs)>>
          ELSE <<[Head(docs) EXCEPT
                    !.page_content = SubSeq(@, 1, ChunkSize)]>>)
         \o SplitDocuments(Tail(docs))

\* FAISS.from_documents: the index built by build number `id` for namespace ns
NewIndex(ns, id, splits) == [ns |-> ns, id |-> id, chunks |-> splits]

\* similarity of a chunk to a query: the occurrences of the query byte
RECURSIVE Score(_, _)
Score(q, text) ==
    IF text = <<>> THEN 0
    ELSE (IF Head(text) = q THEN 1 ELSE 0) + Score(q, Tail(text))

\* the chunks of score s, in insertion order
RECURSIVE WithScore(_, _, _)
WithScore(chunks, q, s) ==
    IF chunks = <<>> THEN <<>>
    ELSE (IF Score(q, Head(chunks).page_content) = s THEN <<Head(chunks)>> ELSE <<>>)
            \o WithScore(Tail(chunks), q, s)

RECURSIVE Ranked(_, _, _)
Ranked(chunks, q, s) ==
    IF s < 0 THEN <<>>
    ELSE WithScore(chunks, q, s) \o Ranked(chunks, q, s - 1)

\* retriever.invoke(query) with search_kwargs k: the k most similar chunks
Invoke(index, q) ==
    LET r == Ranked(index.chunks, q, MaxLen)
    IN  SubSeq(r, 1, IF Len(r) < RetrieveK THEN Len(r) ELSE RetrieveK)

----------------------------------------------------------------------------
(* The cache record: vectorstore.pkl, documents.pkl, data_hash.txt *)
NoRecord == [vs |-> Missing, docs |-> Missing, hash |-> Missing]

\* os.path.exists of the three cache files
RecordExists(c) == c.vs # Missing /\ c.docs # Missing /\ c.hash # Missing

\* pickle.load of both files succeeds
Deserializable(c) == c.vs \notin {Missing, Corrupt} /\ c.docs \notin {Missing, Corrupt}

\* _load_cached_vectorstore: the index it loads, or None when it returns False
LoadCached(c, tree) ==
    IF ~RecordExists(c) THEN None
    ELSE IF c.hash = Unreadable THEN None
    ELSE IF DataHash(tree, CanonicalOrder) # c.hash THEN None
    ELSE IF c.vs = Corrupt THEN None
    ELSE IF c.docs = Corrupt THEN None
    ELSE c.vs

\* _save_vectorstore_cache: the three files written in order, the first
\* `upto` writes succeeding
SaveCache(c, index, splits, tree, upto) ==
    [vs   |-> IF upto >= 1 THEN index ELSE c.vs,
     docs |-> IF upto >= 2 THEN [pickled |-> splits] ELSE c.docs,
     hash |-> IF upto >= 3 THEN DataHash(tree, CanonicalOrder) ELSE c.hash]

\* _build_vectorstore: its outcome on the directory as it stands
\*   "nodocs": no document loaded, early return
\*   "raised": documents but no chunk: FAISS.from_documents cannot build an
\*             index from zero chunks and raises, nothing catches it
\*   "ok":     index built, stored and saved
BuildOutcome(tree, dp) ==
    LET docs == LoadDocuments(tree, dp)
    IN  IF docs = <<>> THEN "nodocs"
        ELSE IF SplitDocuments(docs) = <<>> THEN "raised"
        ELSE "ok"

BuiltIndex(ns, id, tree) == NewIndex(ns, id, SplitDocuments(LoadDocuments(tree, DataPath(ns))))

----------------------------------------------------------------------------
(* The orchestrator: one instance slot per namespace *)
Ops == {"init", "env", "activate", "add_documents", "rebuild", "clear_cache", "retrieve"}

Obs(op, ns, loaded, built, out, result) ==
    [tick |-> 1 - last.tick, op |-> op, ns |-> ns, loaded |-> loaded,
     built |-> built, out |-> out, result |-> result]

HashIdle ==
    /\ hdir = EmptyTree
    /\ snapA = NoSnap
    /\ snapB = NoSnap
    /\ hedits = 0

RagInit ==
    /\ dirs = [ns \in Namespaces |-> EmptyTree]
    /\ fs_cache = [k \in CacheKeys |-> NoRecord]
    /\ alive = [ns \in Namespaces |-> FALSE]
    /\ vectorstores = [ns \in Namespaces |-> None]
    /\ retrievers = [ns \in Namespaces |-> None]
    /\ nbuilds = 0
    /\ fsops = 0
    /\ last = [tick |-> 0, op |-> "init", ns |-> NoUser, loaded |-> FALSE,
               built |-> FALSE, out |-> "-", result |-> <<>>]
    /\ added = [ns \in Namespaces |-> None]
    /\ nodocs = [ns \in Namespaces |-> FALSE]

\* _build_vectorstore of instance ns with outcome `out` (and index idx when
\* it builds one), starting from memory (vs0, rt0) and cache record c0
BuildApply(ns, op, vs0, rt0, c0, liveAfterRaise, out, idx) ==
    /\ out = "ok" => nbuilds < MaxBuilds
    /\ vectorstores' = [vectorstores EXCEPT ![ns] = IF out = "ok" THEN idx ELSE vs0]
    /\ retrievers' = [retrievers EXCEPT ![ns] = IF out = "ok" THEN idx ELSE rt0]
    /\ fs_cache' = [fs_cache EXCEPT ![Key(ns)] =
                      IF out = "ok" THEN SaveCache(c0, idx, idx.chunks, dirs[ns], 3) ELSE c0]
    /\ nbuilds' = IF out = "ok" THEN nbuilds + 1 ELSE nbuilds
    /\ alive' = [alive EXCEPT ![ns] = IF out = "raised" THEN liveAfterRaise ELSE TRUE]
    /\ last' = Obs(op, ns, FALSE, TRUE, out, <<>>)
    /\ nodocs' = [nodocs EXCEPT ![ns] = IF out = "raised" THEN @ ELSE (out = "nodocs")]
    /\ added' = [added EXCEPT ![ns] = None]

\* the build part shared by activation, add_documents and the rebuild button
BuildStep(ns, op, vs0, rt0, c0, liveAfterRaise) ==
    BuildApply(ns, op, vs0, rt0, c0, liveAfterRaise,
               BuildOutcome(dirs[ns], DataPath(ns)),
               BuiltIndex(ns, nbuilds + 1, dirs[ns]))

\* RAGSystem.__init__: fresh dictionaries, then load the cache or build
ActivateWith(ns, loadedIdx, out) ==
    /\ \/ /\ loadedIdx # None
          /\ vectorstores' = [vectorstores EXCEPT ![ns] = loadedIdx]
          /\ retrievers' = [retrievers EXCEPT ![ns] = loadedIdx]
          /\ alive' = [alive EXCEPT ![ns] = TRUE]
          /\ last' = Obs("activate", ns, TRUE, FALSE, "-", <<>>)
          /\ nodocs' = [nodocs EXCEPT ![ns] = (out = "nodocs")]
          /\ added' = [added EXCEPT ![ns] = None]
          /\ UNCHANGED <<fs_cache, nbuilds>>
       \/ /\ loadedIdx = None
          /\ out = "raised"   \* the constructor raises: the caller keeps what it had
          /\ BuildApply(ns, "activate", vectorstores[ns], retrievers[ns],
                        fs_cache[Key(ns)], alive[ns], out, None)
       \/ /\ loadedIdx = None
          /\ out # "raised"
          /\ BuildApply(ns, "activate", None, None, fs_cache[Key(ns)], TRUE, out,
                        BuiltIndex(ns, nbuilds + 1, dirs[ns]))
    /\ UNCHANGED <<dirs, fsops>>
    /\ UNCHANGED notRag

Activate(ns) ==
    ActivateWith(ns, LoadCached(fs_cache[Key(ns)], dirs[ns]),
                 BuildOutcome(dirs[ns], DataPath(ns)))

\* add_documents: rebuilds, the file_paths argument is not used
AddDocuments(ns) ==
    /\ alive[ns]
    /\ BuildStep(ns, "add_documents", vectorstores[ns], retrievers[ns],
                 fs_cache[Key(ns)], TRUE)
    /\ UNCHANGED <<dirs, fsops>>
    /\ UNCHANGED notRag

\* clear_cache: the cache directory removed, the in-memory entries deleted
ClearCache(ns) ==
    /\ alive[ns]
    /\ fs_cache' = [fs_cache EXCEPT ![Key(ns)] = NoRecord]
    /\ vectorstores' = [vectorstores EXCEPT ![ns] = None]
    /\ retrievers' = [retrievers EXCEPT ![ns] = None]
    /\ last' = Obs("clear_cache", ns, FALSE, FALSE, "-", <<>>)
    /\ UNCHANGED <<dirs, alive, nbuilds, fsops, added, nodocs>>
    /\ UNCHANGED notRag

\* the rebuild button of app.py: clear_cache(), then _build_vectorstore()
Rebuild(ns) ==
    /\ alive[ns]
    /\ BuildStep(ns, "rebuild", None, None, NoRecord, TRUE)
    /\ UNCHANGED <<dirs, fsops>>
    /\ UNCHANGED notRag

\* retrieve_documents
Retrieve(ns, q) ==
    /\ alive[ns]
    /\ last' = Obs("retrieve", ns, FALSE, FALSE, "-",
                   IF retrievers[ns] = None THEN <<>> ELSE Invoke(retrievers[ns], q))
    /\ UNCHANGED <<dirs, fs_cache, alive, vectorstores, retrievers, nbuilds, fsops,
                   added, nodocs>>
    /\ UNCHANGED notRag

\* the upload handler of app.py: a file written into the source directory
Upload(ns, name, content) ==
    /\ fsops < MaxFsOps
    /\ dirs' = [dirs EXCEPT ![ns][<<RootDir, name>>] = content]
    /\ added' = [added EXCEPT ![ns] =
                   IF dirs[ns][<<RootDir, name>>] = Absent
                   THEN [name |-> name, fp |-> fs_cache[Key(ns)].hash]
                   ELSE @]
    /\ fsops' = fsops + 1
    /\ last' = Obs("env", ns, FALSE, FALSE, "-", <<>>)
    /\ UNCHANGED <<fs_cache, alive, vectorstores, retrievers, nbuilds, nodocs>>
    /\ UNCHANGED notRag

\* a file of the source directory is deleted by its owner
RemoveFile(ns, name) ==
    /\ fsops < MaxFsOps
    /\ dirs[ns][<<RootDir, name>>] # Absent
    /\ dirs' = [dirs EXCEPT ![ns][<<RootDir, name>>] = Absent]
    /\ added' = [added EXCEPT ![ns] =
                   IF @ # None /\ @.name = name THEN None ELSE @]
    /\ fsops' = fsops + 1
    /\ last' = Obs("env", ns, FALSE, FALSE, "-", <<>>)
    /\ UNCHANGED <<fs_cache, alive, vectorstores, retrievers, nbuilds, nodocs>>
    /\ UNCHANGED notRag

\* a cache file is damaged or lost on disk
DamageCache(k, f, how) ==
    /\ fsops < MaxFsOps
    /\ fs_cache[k][f] \notin {Missing, how}
    /\ fs_cache' = [fs_cache EXCEPT ![k][f] = how]
    /\ fsops' = fsops + 1
    /\ last' = Obs("env", NoUser, FALSE, FALSE, "-", <<>>)
    /\ UNCHANGED <<dirs, alive, vectorstores, retrievers, nbuilds, added, nodocs>>
    /\ UNCHANGED notRag

UploadContents == {c \in Contents : Len(c) <= 1}

RagNext ==
    \/ \E ns \in Namespaces : Activate(ns)
    \/ \E ns \in Namespaces : AddDocuments(ns)
    \/ \E ns \in Namespaces : ClearCache(ns)
    \/ \E ns \in Namespaces : Rebuild(ns)
    \/ \E ns \in Namespaces, q \in Bytes : Retrieve(ns, q)
    \/ \E ns \in Namespaces, n \in FileNames, c \in UploadContents : Upload(ns, n, c)
    \/ \E ns \in Namespaces, n \in FileNames : RemoveFile(ns, n)
    \/ \E k \in CacheKeys : DamageCache(k, "vs", Corrupt)
    \/ \E k \in CacheKeys : DamageCache(k, "docs", Corrupt)
    \/ \E k \in CacheKeys : DamageCache(k, "hash", Unreadable)
    \/ \E k \in CacheKeys, f \in {"vs", "docs", "hash"} : DamageCache(k, f, Missing)

HashNext == HashFirst \/ HashAgain \/ ChangeByte \/ RenameFile \/ MoveByte

RagIdle ==
    /\ dirs = [ns \in Namespaces |-> EmptyTree]
    /\ fs_cache = [k \in CacheKeys |-> NoRecord]
    /\ alive = [ns \in Namespaces |-> FALSE]
    /\ vectorstores = [ns \in Namespaces |-> None]
    /\ retrievers = [ns \in Namespaces |-> None]
    /\ nbuilds = 0
    /\ fsops = 0
    /\ last = [tick |-> 0, op |-> "init", ns |-> NoUser, loaded |-> FALSE,
               built |-> FALSE, out |-> "-", result |-> <<>>]
    /\ added = [ns \in Namespaces |-> None]
    /\ nodocs = [ns \in Namespaces |-> FALSE]

----------------------------------------------------------------------------
(* Prompt assembly: format_documents and ask.  A text is a sequence of      *)
(* pieces; the literal pieces stand for the literal texts of the source.    *)
NL == "<nl>"
Blank == " "
UnknownSource == "<unknown source>"
UnknownPage == "<unknown page>"
UnknownFile == "<unknown file>"
FallbackContext == <<"<no relevant document information found>">>
InfoHead == "[document fragment "
InfoSource == "] source: "
InfoPage == ", page/row: "
DocSeparator == <<NL, NL, "-------------split--------------", NL, NL>>
UserTag == "user: "
AssistantTag == "assistant: "
PromptIntro == "<answer the new question from the retrieved documents; history:>"
PromptContext == "<retrieved document information:>"
PromptQuestion == "<new question:>"
PromptRules == "<answer requirements>"
CitationDelimiter == <<NL, NL, "<document fragments retrieved this time:>", NL>>
AskErrorPrefix == "<sorry, an error occurred while generating the answer: >"
GlmErrorPrefix == "<GLM-4 call failed: >"
NoClientError == "'NoneType' object has no attribute 'chat_with_ai_stream'"

\* retrieved documents with the metadata shapes format_documents tells apart
DocA == [metadata |-> [source |-> <<"kb", "a.pdf">>, file_name |-> <<"x.pdf">>,
                       page |-> [int |-> 0]],
         page_content |-> <<Blank, "alpha", Blank>>]
DocB == [metadata |-> [file_path |-> <<"kb", "sub", "b.csv">>, row |-> [int |-> 4]],
         page_content |-> <<"beta">>]
DocC == [metadata |-> [file_name |-> <<"c.md">>, page_number |-> [str |-> "ii"],
                       row |-> [int |-> 7]],
         page_content |-> <<"gamma", Blank>>]
DocD == [metadata |-> [category |-> "none"], page_content |-> <<"delta">>]
RetrievalOutcomes == {<<>>, <<DocA>>, <<DocB, DocA>>, <<DocD, DocC, DocB>>}

\* os.path.basename of a path given by its components
Basename(path) == path[Len(path)]

\* str.strip of a text
RECURSIVE LStrip(_)
LStrip(t) == IF t # <<>> /\ Head(t) = Blank THEN LStrip(Tail(t)) ELSE t
RECURSIVE RStrip(_)
RStrip(t) == IF t # <<>> /\ t[Len(t)] = Blank THEN RStrip(SubSeq(t, 1, Len(t) - 1)) ELSE t
Strip(t) == RStrip(LStrip(t))

\* the source of a document: 'source', else 'file_path', else 'file_name'
SourceOf(doc) ==
    LET md == doc.metadata
    IN  IF "source" \in DOMAIN md THEN md.source
        ELSE IF "file_path" \in DOMAIN md THEN md.file_path
        ELSE IF "file_name" \in DOMAIN md THEN md.file_name
        ELSE <<UnknownSource>>

\* str(page_num + 1) for an int, str(page_num) otherwise
PageText(v) == IF "int" \in DOMAIN v THEN ToString(v.int + 1) ELSE v.str

\* the locator of a document: 'page', else 'page_number', else 'row'
PageOf(doc) ==
    LET md == doc.metadata
    IN  IF "page" \in DOMAIN md THEN PageText(md.page)
        ELSE IF "page_number" \in DOMAIN md THEN PageText(md.page_number)
        ELSE IF "row" \in DOMAIN md THEN PageText(md.row)
        ELSE UnknownPage

FilenameOf(doc) ==
    IF SourceOf(doc) # <<UnknownSource>> THEN Basename(SourceOf(doc)) ELSE UnknownFile

\* a numbering that starts at 0
DocInfoFromZero(i, doc) ==
    <<InfoHead, ToString(i - 1), InfoSource, FilenameOf(doc), InfoPage, PageOf(doc)>>

\* doc_info of the i-th retrieved document
DocInfo(i, doc) ==
    <<InfoHead, ToString(i), InfoSource, FilenameOf(doc), InfoPage, PageOf(doc)>>

\* the loop of format_documents from position i on: doc_infos
RECURSIVE DocInfosFrom(_, _)
DocInfosFrom(docs, i) ==
    IF i > Len(docs) THEN <<>>
    ELSE <<DocInfo(i, docs[i])>> \o DocInfosFrom(docs, i + 1)

\* enumerate(docs, 1)
DocInfos(docs) == DocInfosFrom(docs, 1)

\* sep.join(texts)
RECURSIVE Join(_, _)
Join(sep, texts) ==
    IF texts = <<>> THEN <<>>
    ELSE IF Len(texts) = 1 THEN texts[1]
    ELSE texts[1] \o sep \o Join(sep, Tail(texts))

\* format_documents: the context text and the doc_infos
FormatDocuments(docs) ==
    IF docs = <<>> THEN [context |-> FallbackContext, doc_infos |-> <<>>]
    ELSE LET infos == DocInfos(docs)
         IN  [context |-> Join(DocSeparator,
                               [i \in 1..Len(docs) |->
                                   infos[i] \o <<NL>> \o Strip(docs[i].page_content)]),
              doc_infos |-> infos]

\* the history loop of ask: one user line and one assistant line per pair
RECURSIVE HistoryStr(_)
HistoryStr(history) ==
    IF history = <<>> THEN <<>>
    ELSE <<UserTag>> \o history[1][1] \o <<NL, AssistantTag>> \o history[1][2] \o <<NL>>
            \o HistoryStr(Tail(history))

\* the prompt of ask
Prompt(history_str, context, question) ==
    <<PromptIntro>> \o history_str \o <<PromptContext>> \o context
        \o <<PromptQuestion>> \o question \o <<PromptRules>>

\* what the language model side does when asked:
\*   no client (create_llm_client caught the constructor's error, returned None)
\*   a GLM4Client whose chain.invoke returns a text
\*   a GLM4Client whose chain.invoke raises
LlmOutcomes ==
    {[client |-> "none"],
     [client |-> "glm", ok |-> TRUE, content |-> <<"answer">>],
     [client |-> "glm", ok |-> FALSE, reason |-> "connection timeout"]}

\* GLM4Client.chat_with_ai_stream: the answer, or the error text it returns
ChatWithAiStream(llm) ==
    IF llm.ok THEN llm.content ELSE <<GlmErrorPrefix, llm.reason>>

\* the call without the except clause
CallAndCiteUnguarded(llm, doc_infos) ==
    IF llm.client = "none"
    THEN [raised |-> TRUE, called |-> FALSE, text |-> <<>>]
    ELSE [raised |-> FALSE, called |-> TRUE,
          text |-> ChatWithAiStream(llm) \o CitationDelimiter \o Join(<<NL>>, doc_infos)]

\* the try block of ask: call the client, append the citation list; an
\* exception becomes the error text
CallAndCite(llm, doc_infos) ==
    IF llm.client = "none"
    THEN [raised |-> FALSE, called |-> FALSE, text |-> <<AskErrorPrefix, NoClientError>>]
    ELSE [raised |-> FALSE, called |-> TRUE,
          text |-> ChatWithAiStream(llm) \o CitationDelimiter \o Join(<<NL>>, doc_infos)]

\* RAGSystem.ask with the retrieval outcome docs and the model outcome llm
Ask(question, history, docs, llm) ==
    LET fd == FormatDocuments(docs)
        hs == HistoryStr(history)
        res == CallAndCite(llm, fd.doc_infos)
    IN  [question |-> question, history |-> history, docs |-> docs, llm |-> llm,
         context |-> fd.context, doc_infos |-> fd.doc_infos, history_str |-> hs,
         prompt |-> Prompt(hs, fd.context, question),
         called |-> res.called, raised |-> res.raised, answer |-> res.text]

----------------------------------------------------------------------------
(* The chat loop of app.py *)
Questions == {<<"Q1">>, <<"Q2">>}

Msg(role, content) == [role |-> role, content |-> content]

\* a pairing that also takes the pending message, with an empty answer
RECURSIVE HistoryPairsWithPending(_, _)
HistoryPairsWithPending(msgs, i) ==
    IF i > Len(msgs) THEN <<>>
    ELSE IF i = Len(msgs) THEN <<<<msgs[i].content, <<>>>>>>
    ELSE (IF msgs[i].role = "user" /\ msgs[i + 1].role = "assistant"
          THEN <<<<msgs[i].content, msgs[i + 1].content>>>> ELSE <<>>)
         \o HistoryPairsWithPending(msgs, i + 2)

\* lines 64-68: the pairs of the history, the pending message left out
RECURSIVE HistoryPairs(_, _)
HistoryPairs(msgs, i) ==
    IF i + 1 > Len(msgs) - 1 THEN <<>>
    ELSE (IF msgs[i].role = "user" /\ msgs[i + 1].role = "assistant"
          THEN <<<<msgs[i].content, msgs[i + 1].content>>>> ELSE <<>>)
         \o HistoryPairs(msgs, i + 2)

BuildHistory(msgs) == HistoryPairs(msgs, 1)

\* lines 54-61: the last message is a user message that follows an answer
AnswerDue(msgs) ==
    /\ msgs # <<>>
    /\ msgs[Len(msgs)].role = "user"
    /\ IF Len(msgs) = 1 THEN TRUE ELSE msgs[Len(msgs) - 1].role = "assistant"

\* lines 48-51: a question is submitted (also while an answer is awaited)
Submit(q) ==
    /\ Len(chat_history) < MaxMsgs
    /\ chat_history' = Append(chat_history, Msg("user", q))
    /\ UNCHANGED asked
    /\ UNCHANGED notChat

\* lines 54-72: the pending question is answered
Answer(docs, llm) ==
    /\ Len(chat_history) < MaxMsgs
    /\ AnswerDue(chat_history)
    /\ LET a == Ask(chat_history[Len(chat_history)].content,
                    BuildHistory(chat_history), docs, llm)
       IN  /\ asked' = a @@ [n |-> Len(chat_history)]
           /\ chat_history' = IF a.raised THEN chat_history
                              ELSE Append(chat_history, Msg("assistant", a.answer))
    /\ UNCHANGED notChat

ChatNext ==
    \/ \E q \in Questions : Submit(q)
    \/ \E docs \in RetrievalOutcomes, llm \in LlmOutcomes : Answer(docs, llm)

----------------------------------------------------------------------------
(* Two sessions on the instance that get_rag shares: the script run of one  *)
(* session uploads and rebuilds step by step (rb) while the script run of   *)
(* another one retrieves (rd).  The shared instance is that of NoUser.      *)
Shared == NoUser

HasChunks(tree) == SplitDocuments(LoadDocuments(tree, DataPath(Shared))) # <<>>

\* the source directories the shared instance may have been constructed on
ConcTrees ==
    {[EmptyTree EXCEPT ![<<RootDir, "a.md">>] = <<b>>] : b \in Bytes}
    \cup {[EmptyTree EXCEPT ![<<RootDir, "a.md">>] = <<b>>, ![<<RootDir, "b.txt">>] = <<c>>] :
            b \in Bytes, c \in Bytes}

\* get_rag: the shared instance has been constructed, its index built and saved
ConcInit ==
    /\ dirs \in {[ns \in Namespaces |-> IF ns = Shared THEN t ELSE EmptyTree] : t \in ConcTrees}
    /\ vectorstores = [ns \in Namespaces |->
                         IF ns = Shared THEN BuiltIndex(Shared, 1, dirs[Shared]) ELSE None]
    /\ retrievers = vectorstores
    /\ fs_cache = [k \in CacheKeys |->
                     IF k = Key(Shared)
                     THEN SaveCache(NoRecord, vectorstores[Shared],
                                    vectorstores[Shared].chunks, dirs[Shared], 3)
                     ELSE NoRecord]
    /\ alive = [ns \in Namespaces |-> ns = Shared]
    /\ nbuilds = 1
    /\ fsops = 0
    /\ last = [tick |-> 0, op |-> "init", ns |-> NoUser, loaded |-> FALSE,
               built |-> FALSE, out |-> "-", result |-> <<>>]
    /\ added = [ns \in Namespaces |-> None]
    /\ nodocs = [ns \in Namespaces |-> FALSE]
    /\ rb = None
    /\ rd = None

concFrame == <<alive, last, added, nodocs>>

\* app.py 21-26: the uploaded file is written into the source directory
RbUpload(name, content) ==
    /\ rb = None
    /\ fsops < MaxFsOps
    /\ dirs' = [dirs EXCEPT ![Shared][<<RootDir, name>>] = content]
    /\ fsops' = fsops + 1
    /\ rb' = [pc |-> "uploaded"]
    /\ UNCHANGED <<fs_cache, vectorstores, retrievers, nbuilds, rd, concFrame>>
    /\ UNCHANGED <<hashVars, chatVars, saveVars>>

\* app.py 27: the rebuild button is not pressed, the script run ends
RbFinish ==
    /\ rb # None /\ rb.pc = "uploaded"
    /\ rb' = None
    /\ UNCHANGED <<dirs, fsops, fs_cache, vectorstores, retrievers, nbuilds, rd, concFrame>>
    /\ UNCHANGED <<hashVars, chatVars, saveVars>>

\* clear_cache 459-463: the button is pressed, the cache directory is removed
RbRmtree ==
    /\ rb # None /\ rb.pc = "uploaded"
    /\ nbuilds < MaxBuilds
    /\ fs_cache' = [fs_cache EXCEPT ![Key(Shared)] = NoRecord]
    /\ rb' = [pc |-> "del_vs"]
    /\ UNCHANGED <<dirs, fsops, vectorstores, retrievers, nbuilds, rd, concFrame>>
    /\ UNCHANGED <<hashVars, chatVars, saveVars>>

\* clear_cache 467-468
RbDelVectorstore ==
    /\ rb # None /\ rb.pc = "del_vs"
    /\ vectorstores' = [vectorstores EXCEPT ![Shared] = None]
    /\ rb' = [pc |-> "del_rt"]
    /\ UNCHANGED <<dirs, fsops, fs_cache, retrievers, nbuilds, rd, concFrame>>
    /\ UNCHANGED <<hashVars, chatVars, saveVars>>

\* clear_cache 469-470
RbDelRetriever ==
    /\ rb # None /\ rb.pc = "del_rt"
    /\ retrievers' = [retrievers EXCEPT ![Shared] = None]
    /\ rb' = [pc |-> "load"]
    /\ UNCHANGED <<dirs, fsops, fs_cache, vectorstores, nbuilds, rd, concFrame>>
    /\ UNCHANGED <<hashVars, chatVars, saveVars>>

\* _build_vectorstore 141-145: the documents are loaded; none: return
RbLoad ==
    /\ rb # None /\ rb.pc = "load"
    /\ rb' = IF LoadDocuments(dirs[Shared], DataPath(Shared)) = <<>> THEN None
             ELSE [pc |-> "index", docs |-> LoadDocuments(dirs[Shared], DataPath(Shared))]
    /\ UNCHANGED <<dirs, fsops, fs_cache, vectorstores, retrievers, nbuilds, rd, concFrame>>
    /\ UNCHANGED <<hashVars, chatVars, saveVars>>

\* _build_vectorstore 148-156: split, build the index and its retriever; with
\* no chunk FAISS.from_documents raises and the script run ends
RbIndex ==
    /\ rb # None /\ rb.pc = "index"
    /\ rb' = IF SplitDocuments(rb.docs) = <<>> THEN None
             ELSE [pc |-> "set_vs",
                   index |-> NewIndex(Shared, nbuilds + 1, SplitDocuments(rb.docs))]
    /\ nbuilds' = IF SplitDocuments(rb.docs) = <<>> THEN nbuilds ELSE nbuilds + 1
    /\ UNCHANGED <<dirs, fsops, fs_cache, vectorstores, retrievers, rd, concFrame>>
    /\ UNCHANGED <<hashVars, chatVars, saveVars>>

\* _build_vectorstore 160
RbSetVectorstore ==
    /\ rb # None /\ rb.pc = "set_vs"
    /\ vectorstores' = [vectorstores EXCEPT ![Shared] = rb.index]
    /\ rb' = [rb EXCEPT !.pc = "set_rt"]
    /\ UNCHANGED <<dirs, fsops, fs_cache, retrievers, nbuilds, rd, concFrame>>
    /\ UNCHANGED <<hashVars, chatVars, saveVars>>

\* _build_vectorstore 161
RbSetRetriever ==
    /\ rb # None /\ rb.pc = "set_rt"
    /\ retrievers' = [retrievers EXCEPT ![Shared] = rb.index]
    /\ rb' = [rb EXCEPT !.pc = "save_1"]
    /\ UNCHANGED <<dirs, fsops, fs_cache, vectorstores, nbuilds, rd, concFrame>>
    /\ UNCHANGED <<hashVars, chatVars, saveVars>>

\* _save_vectorstore_cache: its n-th write; after the third the script run ends
RbSave(n) ==
    /\ rb # None /\ rb.pc = CASE n = 1 -> "save_1" [] n = 2 -> "save_2" [] n = 3 -> "save_3"
    /\ fs_cache' = [fs_cache EXCEPT ![Key(Shared)] =
                      [vs   |-> IF n = 1 THEN rb.index ELSE @.vs,
                       docs |-> IF n = 2 THEN [pickled |-> rb.index.chunks] ELSE @.docs,
                       hash |-> IF n = 3 THEN DataHash(dirs[Shared], CanonicalOrder)
                                ELSE @.hash]]
    /\ rb' = CASE n = 1 -> [rb EXCEPT !.pc = "save_2"]
               [] n = 2 -> [rb EXCEPT !.pc = "save_3"]
               [] n = 3 -> None
    /\ UNCHANGED <<dirs, fsops, vectorstores, retrievers, nbuilds, rd, concFrame>>
    /\ UNCHANGED <<hashVars, chatVars, saveVars>>

\* retrieve_documents 170-171: the retriever of the key is fetched
RdGet(q) ==
    /\ rd = None
    /\ rd' = [pc |-> "invoke", q |-> q, retriever |-> retrievers[Shared],
              hasdocs |-> HasChunks(dirs[Shared]), rebuilding |-> (rb # None)]
    /\ UNCHANGED <<dirs, fsops, fs_cache, vectorstores, retrievers, nbuilds, rb, concFrame>>
    /\ UNCHANGED <<hashVars, chatVars, saveVars>>

\* retrieve_documents 173-183: no retriever: [], else its answer
RdInvoke ==
    /\ rd # None /\ rd.pc = "invoke"
    /\ rd' = [pc |-> "done", q |-> rd.q, retriever |-> rd.retriever,
              hasdocs |-> rd.hasdocs, rebuilding |-> rd.rebuilding,
              result |-> IF rd.retriever = None THEN <<>> ELSE Invoke(rd.retriever, rd.q)]
    /\ UNCHANGED <<dirs, fsops, fs_cache, vectorstores, retrievers, nbuilds, rb, concFrame>>
    /\ UNCHANGED <<hashVars, chatVars, saveVars>>

\* the reading script run ends
RdReturn ==
    /\ rd # None /\ rd.pc = "done"
    /\ rd' = None
    /\ UNCHANGED <<dirs, fsops, fs_cache, vectorstores, retrievers, nbuilds, rb, concFrame>>
    /\ UNCHANGED <<hashVars, chatVars, saveVars>>

ConcNext ==
    \/ \E n \in FileNames, c \in UploadContents : RbUpload(n, c)
    \/ RbFinish
    \/ RbRmtree
    \/ RbDelVectorstore
    \/ RbDelRetriever
    \/ RbLoad
    \/ RbIndex
    \/ RbSetVectorstore
    \/ RbSetRetriever
    \/ \E n \in 1..3 : RbSave(n)
    \/ \E q \in Bytes : RdGet(q)
    \/ RdInvoke
    \/ RdReturn

----------------------------------------------------------------------------
(* Builds of one namespace that run side by side (two script runs on the    *)
(* shared instance, or two processes constructing it) and save the cache    *)
(* record file by file, while the source directory may change.              *)
Savers == {1, 2}

\* no save call: the record written when the instance was constructed
Constructor == 0

SaverAt(pc, index, hash) == [pc |-> pc, index |-> index, hash |-> hash]

SaveIdle ==
    /\ sv = [s \in Savers |-> SaverAt("idle", None, None)]
    /\ wrote = [vs |-> Constructor, docs |-> Constructor, hash |-> Constructor,
                tree |-> EmptyTree]

SaveInit ==
    /\ ConcInit
    /\ sv = [s \in Savers |-> SaverAt("idle", None, None)]
    /\ wrote = [vs |-> Constructor, docs |-> Constructor, hash |-> Constructor,
                tree |-> dirs[Shared]]

saveFrame == <<alive, last, added, nodocs, rb, rd>>

\* the source directory changes: an upload writes a file
SvUpload(name, content) ==
    /\ fsops < MaxFsOps
    /\ dirs' = [dirs EXCEPT ![Shared][<<RootDir, name>>] = content]
    /\ fsops' = fsops + 1
    /\ UNCHANGED <<fs_cache, vectorstores, retrievers, nbuilds, sv, wrote, saveFrame>>
    /\ UNCHANGED <<hashVars, chatVars>>

\* clear_cache before the build (the rebuild button)
SvClear(s) ==
    /\ sv[s].pc = "idle"
    /\ fs_cache' = [fs_cache EXCEPT ![Key(Shared)] = NoRecord]
    /\ vectorstores' = [vectorstores EXCEPT ![Shared] = None]
    /\ retrievers' = [retrievers EXCEPT ![Shared] = None]
    /\ sv' = [sv EXCEPT ![s] = SaverAt("cleared", None, None)]
    /\ UNCHANGED <<dirs, fsops, nbuilds, wrote, saveFrame>>
    /\ UNCHANGED <<hashVars, chatVars>>

\* _build_vectorstore 141-161: load, split, index, store in memory; without
\* documents it returns, without chunks FAISS.from_documents raises
SvBuild(s) ==
    /\ sv[s].pc \in {"idle", "cleared"}
    /\ IF BuildOutcome(dirs[Shared], DataPath(Shared)) = "ok"
       THEN /\ nbuilds' = nbuilds + 1
            /\ vectorstores' = [vectorstores EXCEPT ![Shared] =
                                  BuiltIndex(Shared, nbuilds + 1, dirs[Shared])]
            /\ retrievers' = [retrievers EXCEPT ![Shared] =
                                BuiltIndex(Shared, nbuilds + 1, dirs[Shared])]
            /\ sv' = [sv EXCEPT ![s] =
                        SaverAt("write_vs", BuiltIndex(Shared, nbuilds + 1, dirs[Shared]), None)]
       ELSE /\ sv' = [sv EXCEPT ![s] = SaverAt("ended", None, None)]
            /\ UNCHANGED <<nbuilds, vectorstores, retrievers>>
    /\ UNCHANGED <<dirs, fsops, fs_cache, wrote, saveFrame>>
    /\ UNCHANGED <<hashVars, chatVars>>

\* _save_vectorstore_cache 437-439: vectorstore.pkl
SvWriteVs(s) ==
    /\ sv[s].pc = "write_vs"
    /\ fs_cache' = [fs_cache EXCEPT ![Key(Shared)].vs = sv[s].index]
    /\ wrote' = [wrote EXCEPT !.vs = s]
    /\ sv' = [sv EXCEPT ![s].pc = "write_docs"]
    /\ UNCHANGED <<dirs, fsops, vectorstores, retrievers, nbuilds, saveFrame>>
    /\ UNCHANGED <<hashVars, chatVars>>

\* _save_vectorstore_cache 442-444: documents.pkl
SvWriteDocs(s) ==
    /\ sv[s].pc = "write_docs"
    /\ fs_cache' = [fs_cache EXCEPT ![Key(Shared)].docs = [pickled |-> sv[s].index.chunks]]
    /\ wrote' = [wrote EXCEPT !.docs = s]
    /\ sv' = [sv EXCEPT ![s].pc = "hash"]
    /\ UNCHANGED <<dirs, fsops, vectorstores, retrievers, nbuilds, saveFrame>>
    /\ UNCHANGED <<hashVars, chatVars>>

\* _save_vectorstore_cache 448: current_hash = self._get_data_hash()
SvHash(s) ==
    /\ sv[s].pc = "hash"
    /\ sv' = [sv EXCEPT ![s] =
                [pc |-> "write_hash", index |-> @.index,
                 hash |-> [fp |-> DataHash(dirs[Shared], CanonicalOrder),
                           tree |-> dirs[Shared]]]]
    /\ UNCHANGED <<dirs, fsops, fs_cache, vectorstores, retrievers, nbuilds, wrote, saveFrame>>
    /\ UNCHANGED <<hashVars, chatVars>>

\* _save_vectorstore_cache 449-452: data_hash.txt, the save is complete
SvWriteHash(s) ==
    /\ sv[s].pc = "write_hash"
    /\ fs_cache' = [fs_cache EXCEPT ![Key(Shared)].hash = sv[s].hash.fp]
    /\ wrote' = [wrote EXCEPT !.hash = s, !.tree = sv[s].hash.tree]
    /\ sv' = [sv EXCEPT ![s].pc = "saved"]
    /\ UNCHANGED <<dirs, fsops, vectorstores, retrievers, nbuilds, saveFrame>>
    /\ UNCHANGED <<hashVars, chatVars>>

\* _save_vectorstore_cache 454-455: a write raises, the save stops where it is
SvFail(s) ==
    /\ sv[s].pc \in {"write_vs", "write_docs", "hash", "write_hash"}
    /\ sv' = [sv EXCEPT ![s].pc = "ended"]
    /\ UNCHANGED <<dirs, fsops, fs_cache, vectorstores, retrievers, nbuilds, wrote, saveFrame>>
    /\ UNCHANGED <<hashVars, chatVars>>

SaveNext ==
    \/ \E n \in FileNames, c \in UploadContents : SvUpload(n, c)
    \/ \E s \in Savers : SvClear(s)
    \/ \E s \in Savers : SvBuild(s)
    \/ \E s \in Savers : SvWriteVs(s)
    \/ \E s \in Savers : SvWriteDocs(s)
    \/ \E s \in Savers : SvHash(s)
    \/ \E s \in Savers : SvWriteHash(s)
    \/ \E s \in Savers : SvFail(s)

ChatIdle ==
    /\ chat_history = <<>>
    /\ asked = None

ConcIdle ==
    /\ rb = None
    /\ rd = None

Init == RagInit /\ HashIdle /\ ChatIdle /\ ConcIdle /\ SaveIdle
InitHash == HashInit /\ RagIdle /\ ChatIdle /\ ConcIdle /\ SaveIdle

Spec == Init /\ [][RagNext]_vars
SpecHash == InitHash /\ [][HashNext]_vars

InitConc == ConcInit /\ HashIdle /\ ChatIdle /\ SaveIdle

InitSave == SaveInit /\ HashIdle /\ ChatIdle
SpecSave == InitSave /\ [][SaveNext]_vars
SpecConc == InitConc /\ [][ConcNext]_vars

InitChat == HashIdle /\ RagIdle /\ ChatIdle /\ ConcIdle /\ SaveIdle
SpecChat == InitChat /\ [][ChatNext]_vars

----------------------------------------------------------------------------
(* Claims about activation, rebuild and the cache record *)

\* the last step was an operation (not a stuttering step)
Stepped == last'.tick # last.tick
StepOf(ops, ns) == Stepped /\ last'.op \in ops /\ last'.ns = ns

\* the cache record c is valid for the directory tree
ValidFor(c, tree) ==
    /\ RecordExists(c)
    /\ c.hash = DataHash(tree, CanonicalOrder)
    /\ Deserializable(c)

\* C1: an activation ends with the persisted index loaded and nothing built
\* if and only if the cache record exists, its stored fingerprint equals the
\* fingerprint of the source directory and both pickles deserialize; in
\* every other case _build_vectorstore runs on the source directory and the
\* activation does not fail.
C1_ActivationLoadsIffValid ==
    [][\A ns \in Namespaces : StepOf({"activate"}, ns) =>
          LET c == fs_cache[Key(ns)]
              valid == ValidFor(c, dirs[ns])
              out == BuildOutcome(dirs[ns], DataPath(ns))
          IN  /\ (last'.loaded /\ ~last'.built) <=> valid
              /\ valid => /\ vectorstores'[ns] = c.vs
                          /\ retrievers'[ns] = c.vs
                          /\ nbuilds' = nbuilds
                          /\ fs_cache' = fs_cache
              /\ ~valid => /\ last'.built /\ ~last'.loaded
                           /\ last'.out = out
                           /\ last'.out # "raised"
                           /\ out = "ok" =>
                                /\ nbuilds' = nbuilds + 1
                                /\ vectorstores'[ns].id = nbuilds'
                                /\ vectorstores'[ns].chunks =
                                     SplitDocuments(LoadDocuments(dirs[ns], DataPath(ns)))
                                /\ retrievers'[ns] = vectorstores'[ns]
                           /\ out = "nodocs" => retrievers'[ns] = None]_vars

\* C2: after a new file is added and the namespace is rebuilt, the persisted
\* fingerprint differs from the one stored before, the old fingerprint no
\* longer matches the directory, and retrieval is served by an index built
\* from the directory content that includes the new file.
C2_RebuildAfterAddChangesFingerprint ==
    [][\A ns \in Namespaces :
          (StepOf({"add_documents", "rebuild"}, ns) /\ added[ns] # None) =>
             /\ added[ns].fp \notin {Missing, Unreadable} =>
                   /\ fs_cache'[Key(ns)].hash # added[ns].fp
                   /\ added[ns].fp # DataHash(dirs'[ns], CanonicalOrder)
             /\ retrievers'[ns] # None =>
                   retrievers'[ns].chunks =
                      SplitDocuments(LoadDocuments(dirs'[ns], DataPath(ns)))]_vars

\* C3: after an activation or rebuild that found no buildable document,
\* retrieve_documents returns an empty sequence.
C3_NoDocumentsRetrievesNothing ==
    (last.op = "retrieve" /\ nodocs[last.ns]) => last.result = <<>>

\* C5: an operation on one namespace leaves every other namespace's
\* in-memory index and cache record unchanged, and an activation never loads
\* an index built for another namespace.
C5_NamespacesIsolated ==
    [][\A n \in Namespaces :
          StepOf({"activate", "add_documents", "rebuild", "clear_cache", "retrieve"}, n) =>
             /\ \A m \in Namespaces \ {n} :
                   /\ vectorstores'[m] = vectorstores[m]
                   /\ retrievers'[m] = retrievers[m]
                   /\ fs_cache'[Key(m)] = fs_cache[Key(m)]
             /\ last'.loaded => vectorstores'[n].ns = n]_vars

\* the cache record c holds an index built for namespace ns
OwnRecord(c, ns) == c.vs \notin {Missing, Corrupt} /\ c.vs.ns = ns

\* C9: a forced rebuild leaves neither the pre-rebuild in-memory index nor
\* the pre-rebuild cache record in place, whether or not it built an index.
C9_RebuildEvictsStale ==
    [][\A ns \in Namespaces :
          (StepOf({"add_documents", "rebuild"}, ns) /\ last'.out \in {"ok", "nodocs"}) =>
          /\ vectorstores[ns] # None => vectorstores'[ns] # vectorstores[ns]
          /\ retrievers[ns] # None => retrievers'[ns] # retrievers[ns]
          /\ OwnRecord(fs_cache[Key(ns)], ns) =>
                fs_cache'[Key(ns)] # fs_cache[Key(ns)]]_vars

----------------------------------------------------------------------------
(* Claims about the content fingerprint *)

\* C4: two states of a source directory have equal fingerprints if and
\* only if they hold the same file names with the same bytes per file,
\* whatever the order in which the walk enumerates the directory.
C4_FingerprintEqualIffSameContent ==
    (snapA # NoSnap /\ snapB # NoSnap) =>
        ((snapA.fp = snapB.fp) <=> (snapA.tree = snapB.tree))

----------------------------------------------------------------------------
(* Claims about prompt assembly and the chat loop, under SpecChat *)

Contains(t, piece) == \E i \in 1..Len(t) : t[i] = piece
EndsWith(t, tl) == Len(t) >= Len(tl) /\ SubSeq(t, Len(t) - Len(tl) + 1, Len(t)) = tl

\* file name and locator a citation of each sample document has to carry
C6_Expected(doc) ==
    CASE doc = DocA -> [filename |-> "a.pdf", locator |-> "1"]
      [] doc = DocB -> [filename |-> "b.csv", locator |-> "5"]
      [] doc = DocC -> [filename |-> "c.md", locator |-> "ii"]
      [] doc = DocD -> [filename |-> UnknownFile, locator |-> UnknownPage]

C6_Citation(i, doc) ==
    <<InfoHead, ToString(i), InfoSource, C6_Expected(doc).filename,
      InfoPage, C6_Expected(doc).locator>>

RECURSIVE C6_Lines(_, _)
C6_Lines(docs, i) ==
    IF i > Len(docs) THEN <<>>
    ELSE C6_Citation(i, docs[i]) \o (IF i < Len(docs) THEN <<NL>> ELSE <<>>)
            \o C6_Lines(docs, i + 1)

\* C6: after every ask, there are as many citations as retrieved chunks,
\* citation i carries index i and the file name and locator of retrieved
\* chunk i, the answer of a called model ends with the delimiter and the
\* citations in retrieval order, and with no retrieved chunk the citation
\* list is empty and an existing model is called with the fallback context.
C6_CitationsMatchChunks ==
    asked # None =>
        /\ Len(asked.doc_infos) = Len(asked.docs)
        /\ \A i \in 1..Len(asked.docs) :
               asked.doc_infos[i] = C6_Citation(i, asked.docs[i])
        /\ asked.called =>
               EndsWith(asked.answer, CitationDelimiter \o C6_Lines(asked.docs, 1))
        /\ asked.docs = <<>> =>
               /\ asked.doc_infos = <<>>
               /\ asked.context = FallbackContext
               /\ asked.llm.client # "none" =>
                      asked.called /\ Contains(asked.prompt, FallbackContext[1])

C6_Witness ==
    /\ asked # None
    /\ asked.docs = <<DocD, DocC, DocB>>
    /\ asked.called
    /\ chat_history[Len(chat_history)] = Msg("assistant", asked.answer)

\* the failure of the model call and the reason it gives
C7_Failed(llm) == llm.client = "none" \/ ~llm.ok
C7_Reason(llm) == IF llm.client = "none" THEN NoClientError ELSE llm.reason

\* C7: whenever the model call of an ask fails (the provider raises, or there
\* is no client), ask raises nothing and its answer, which the chat loop
\* appends, is an error text that embeds the reason of the failure.
C7_FailureBecomesErrorText ==
    (asked # None /\ C7_Failed(asked.llm)) =>
        /\ ~asked.raised
        /\ Contains(asked.answer, C7_Reason(asked.llm))
        /\ Contains(asked.answer, AskErrorPrefix) \/ Contains(asked.answer, GlmErrorPrefix)
        /\ Len(chat_history) > asked.n
        /\ chat_history[asked.n + 1] = Msg("assistant", asked.answer)

C7_Witness ==
    /\ asked # None
    /\ asked.llm.client = "none"
    /\ asked.docs # <<>>
    /\ asked.history # <<>>
    /\ chat_history[Len(chat_history)] = Msg("assistant", asked.answer)

\* the history lines of every answered question among msgs[i..]: a user
\* message directly followed by an assistant message
RECURSIVE C8_Lines(_, _)
C8_Lines(msgs, i) ==
    IF i >= Len(msgs) THEN <<>>
    ELSE (IF msgs[i].role = "user" /\ msgs[i + 1].role = "assistant"
          THEN <<UserTag>> \o msgs[i].content \o <<NL, AssistantTag>>
                  \o msgs[i + 1].content \o <<NL>>
          ELSE <<>>)
         \o C8_Lines(msgs, i + 1)

C8_Count(t, piece) == Cardinality({i \in 1..Len(t) : t[i] = piece})

\* C8: in every session, the history block of the prompt assembled for the
\* newest question is exactly the user/assistant line pairs of the earlier
\* answered questions, oldest first, one pair per answer given so far, so
\* the pending question and unanswered user turns are not in it; the history
\* handed to ask is the same before and after the call.
C8_HistoryBlockIsAnsweredPairs ==
    asked # None =>
        LET msgs == SubSeq(chat_history, 1, asked.n)
            answered == {i \in 1..asked.n : msgs[i].role = "assistant"}
        IN  /\ msgs[asked.n] = Msg("user", asked.question)
            /\ asked.history_str = C8_Lines(msgs, 1)
            /\ C8_Count(asked.history_str, UserTag) = Cardinality(answered)
            /\ C8_Count(asked.history_str, AssistantTag) = Cardinality(answered)
            /\ Len(asked.history) = Cardinality(answered)
            /\ \A j \in 1..Len(asked.history) :
                   asked.history[j] = <<msgs[2 * j - 1].content, msgs[2 * j].content>>

C8_Witness ==
    /\ asked # None
    /\ asked.n = 5
    /\ Len(asked.history) = 2
    /\ asked.history[1][1] # asked.history[2][1]
    /\ asked.question = asked.history[1][1]

----------------------------------------------------------------------------
(* Claims about sessions that share the instance, under SpecConc *)

\* C10: a retrieve_documents call that runs while a rebuild is under way, in
\* a namespace that has documents, is answered from a complete index: the
\* retriever it fetches is there, holds the chunks of an index that was
\* built, and its answer is the answer of that index.
C10_ReaderSeesOldOrNewIndex ==
    (rd # None /\ rd.pc = "done" /\ rd.rebuilding /\ rd.hasdocs) =>
        /\ rd.retriever # None
        /\ rd.retriever.chunks # <<>>
        /\ rd.result = Invoke(rd.retriever, rd.q)

----------------------------------------------------------------------------
(* Claims about saves of one namespace side by side, under SpecSave *)

\* C11: once two concurrent saves of a namespace have both completed, the
\* persisted fingerprint and the persisted serialized index (and the
\* persisted chunks) were written by the same of the two save calls.
C11_SavesSerialized ==
    (\A s \in Savers : sv[s].pc = "saved") =>
        /\ wrote.hash = wrote.vs
        /\ wrote.docs = wrote.vs
        /\ fs_cache[Key(Shared)].vs = sv[wrote.hash].index

\* no save is under way, and only the first saver has run
SavesSettled ==
    /\ sv[1].pc \in {"idle", "cleared", "saved", "ended"}
    /\ sv[2].pc = "idle"

\* C12: after any sequence of builds, saves (complete or stopped after some
\* of the files), cache clears and changes of the source directory, whenever
\* the cache record is accepted as valid for the current source directory,
\* the index it loads holds the chunks of exactly that directory content.
\* Stated for records whose fingerprint was computed on the current
\* directory, so that no collision of fingerprints is involved.
C12_AcceptedRecordMatchesDirectory ==
    (/\ SavesSettled
     /\ wrote.tree = dirs[Shared]
     /\ LoadCached(fs_cache[Key(Shared)], dirs[Shared]) # None) =>
        LoadCached(fs_cache[Key(Shared)], dirs[Shared]).chunks =
            SplitDocuments(LoadDocuments(dirs[Shared], DataPath(Shared)))

====
